---- MODULE Spec2Model ----
(***************************************************************************)
(* Model of src/view/scrollable_region.rs (ScrollableRegion): the scroll   *)
(* state of a fixed-height band of lines over a terminal.                  *)
(*                                                                         *)
(* All quantities are Rust `usize`.  The word is scaled down to Width      *)
(* bits.  The checked operations (checked_sub) are exact; the unchecked    *)
(* `+`, `-` and `+=` are computed modulo 2^Width, and every call records   *)
(* whether one of them overflowed.  A build with overflow checks (debug)   *)
(* panics in such a call and the region is never used again; a build       *)
(* without them (release) carries on with the wrapped value.               *)
(*                                                                         *)
(* The calls are driven with arguments from both ends of the word: the     *)
(* small values an editor passes, and the values next to usize::MAX.       *)
(***************************************************************************)
EXTENDS Integers, Naturals, FiniteSets, Sequences, TLC

\* ---------------------------------------------------------------- bounds
Width == 4              \* bits of the scaled-down usize
LowSpan == 4            \* arguments 0 .. LowSpan are driven
HighSpan == 1           \* arguments UsizeMax - HighSpan .. UsizeMax are driven

Modulus == 2 ^ Width
UsizeMax == Modulus - 1
Usize == 0 .. UsizeMax

\* the usize arguments the calls are driven with
Args == (0 .. LowSpan) \cup ((UsizeMax - HighSpan) .. UsizeMax)

VARIABLES
    line_offset,        \* ScrollableRegion.line_offset
    wrapped_line_count, \* ScrollableRegion.wrapped_line_count
    terminal_height,    \* what self.terminal.height() returns now
    overflow_checks,    \* TRUE: unchecked arithmetic panics on overflow
    overflowed,         \* an unchecked + or - of the last call overflowed
    last_op,            \* name of the last call
    last_arg,           \* its usize argument (0 when it takes none)
    result              \* what it returned

vars == <<line_offset, wrapped_line_count, terminal_height, overflow_checks,
          overflowed, last_op, last_arg, result>>

\* the last call panicked: the thread is gone, the region with it
panicked == overflowed /\ overflow_checks

\* ------------------------------------------------------ usize arithmetic
None == -1

\* a.checked_sub(b): Some(a - b), or None when b > a
checked_sub(a, b) == IF a >= b THEN a - b ELSE None

\* opt.unwrap_or(d)
unwrap_or(opt, d) == IF opt = None THEN d ELSE opt

\* a + b on usize without overflow checks
wrapping_add(a, b) == (a + b) % Modulus

\* a - b on usize without overflow checks
wrapping_sub(a, b) == (a - b + Modulus) % Modulus

add_overflows(a, b) == a + b > UsizeMax

sub_overflows(a, b) == a < b

\* --------------------------------------------------------------- results
Unit == [kind |-> "unit"]
UsizeResult(n) == [kind |-> "usize", val |-> n]
LineRange(s, e) == [kind |-> "LineRange", start |-> s, end |-> e]
AboveRegion == [kind |-> "AboveRegion"]
Visible(k) == [kind |-> "Visible", idx |-> k]
BelowRegion == [kind |-> "BelowRegion"]
Panic == [kind |-> "panic"]

\* ----------------------------------------------- ScrollableRegion's methods
\* A region value: its two fields and the height its terminal reports.
Region(offset, count, rows) ==
    [line_offset |-> offset, wrapped_line_count |-> count, terminal |-> rows]

\* the region as it stands
this == Region(line_offset, wrapped_line_count, terminal_height)

\* height(): terminal.height().checked_sub(wrapped_line_count + 1).unwrap_or(0)
height(self) ==
    unwrap_or(checked_sub(self.terminal, wrapping_add(self.wrapped_line_count, 1)), 0)

\* wrapped_line_count + 1 overflows
height_overflows(self) == add_overflows(self.wrapped_line_count, 1)

\* visible_range(): LineRange::new(line_offset, height() + line_offset)
visible_range(self) ==
    LineRange(self.line_offset, wrapping_add(height(self), self.line_offset))

\* height() + line_offset overflows, or height() did
visible_range_overflows(self) ==
    height_overflows(self) \/ add_overflows(height(self), self.line_offset)

\* relative_position with `line > self.height()` as its test
relative_position_past_end(self, line) ==
    LET rel == checked_sub(line, self.line_offset)
    IN  IF rel # None
        THEN IF rel > height(self) THEN BelowRegion ELSE Visible(rel)
        ELSE AboveRegion

\* relative_position(line)
relative_position(self, line) ==
    LET rel == checked_sub(line, self.line_offset)
    IN  IF rel # None
        THEN IF rel >= height(self) THEN BelowRegion ELSE Visible(rel)
        ELSE AboveRegion

\* height() is only called in the Some arm
relative_position_overflows(self, line) ==
    line >= self.line_offset /\ height_overflows(self)

\* scroll_into_view with the `+ 1` of its second branch left out
scroll_into_view_without_plus_one(self, line) ==
    LET range == visible_range(self)
    IN  IF line < range.start
        THEN [self EXCEPT !.line_offset = line]
        ELSE IF line >= range.end
             THEN [self EXCEPT !.line_offset = wrapping_sub(line, height(self))]
             ELSE self

\* scroll_into_view with `line + height() + 1` in its second branch
scroll_into_view_adding_height(self, line) ==
    LET range == visible_range(self)
    IN  IF line < range.start
        THEN [self EXCEPT !.line_offset = line]
        ELSE IF line >= range.end
             THEN [self EXCEPT !.line_offset =
                       wrapping_add(wrapping_add(line, height(self)), 1)]
             ELSE self

\* scroll_into_view with `line <= range.start()` as its first test
scroll_into_view_inclusive_start(self, line) ==
    LET range == visible_range(self)
    IN  IF line <= range.start
        THEN [self EXCEPT !.line_offset = line]
        ELSE IF line >= range.end
             THEN [self EXCEPT !.line_offset =
                       wrapping_add(wrapping_sub(line, height(self)), 1)]
             ELSE self

\* scroll_into_view(line): the region it leaves
scroll_into_view(self, line) ==
    LET range == visible_range(self)
    IN  IF line < range.start
        THEN [self EXCEPT !.line_offset = line]
        ELSE IF line >= range.end
             THEN [self EXCEPT !.line_offset =
                       wrapping_add(wrapping_sub(line, height(self)), 1)]
             ELSE self

\* visible_range() overflows, or line - height() + 1 does in the second branch
scroll_into_view_overflows(self, line) ==
    LET range == visible_range(self)
    IN  \/ visible_range_overflows(self)
        \/ /\ line >= range.start
           /\ line >= range.end
           /\ \/ sub_overflows(line, height(self))
              \/ add_overflows(wrapping_sub(line, height(self)), 1)

\* scroll_into_view(line) enters its second branch, where it evaluates the
\* unchecked line - height()
scroll_into_view_subtracts(self, line) ==
    LET range == visible_range(self)
    IN  line >= range.start /\ line >= range.end

\* scroll_to_center with the whole height() subtracted
scroll_to_center_whole_height(self, line) ==
    [self EXCEPT !.line_offset = unwrap_or(checked_sub(line, height(self)), 0)]

\* scroll_to_center(line): line.checked_sub(height() / 2).unwrap_or(0)
scroll_to_center(self, line) ==
    [self EXCEPT !.line_offset = unwrap_or(checked_sub(line, height(self) \div 2), 0)]

\* scroll_up with an unchecked `line_offset - amount`
scroll_up_unchecked(self, amount) ==
    [self EXCEPT !.line_offset = wrapping_sub(self.line_offset, amount)]

\* scroll_up(amount): line_offset.checked_sub(amount), None => 0
scroll_up(self, amount) ==
    LET r == checked_sub(self.line_offset, amount)
    IN  [self EXCEPT !.line_offset = IF r # None THEN r ELSE 0]

\* scroll_down(amount): line_offset += amount
scroll_down(self, amount) ==
    [self EXCEPT !.line_offset = wrapping_add(self.line_offset, amount)]

\* line_offset + amount overflows
scroll_down_overflows(self, amount) == add_overflows(self.line_offset, amount)

\* set_wrapped_line_count that also scrolls back to the top
set_wrapped_line_count_resetting_offset(self, count) ==
    [self EXCEPT !.wrapped_line_count = count, !.line_offset = 0]

\* set_wrapped_line_count(count)
set_wrapped_line_count(self, count) == [self EXCEPT !.wrapped_line_count = count]

\* ------------------------------------------------------------ the calls
\* Every call is refused once the thread has panicked.  A call whose
\* unchecked arithmetic overflowed panics when overflow checks are on and
\* stores or returns nothing; otherwise it completes with the wrapped value.

\* &mut self call that completed: the fields are those of `after`
Stored(after) ==
    /\ line_offset' = after.line_offset
    /\ wrapped_line_count' = after.wrapped_line_count

ScrollIntoView(line) ==
    LET overflows == scroll_into_view_overflows(this, line)
        panics == overflows /\ overflow_checks
    IN  /\ ~panicked
        /\ last_op' = "scroll_into_view"
        /\ last_arg' = line
        /\ overflowed' = overflows
        /\ Stored(IF panics THEN this ELSE scroll_into_view(this, line))
        /\ result' = IF panics THEN Panic ELSE Unit
        /\ UNCHANGED <<terminal_height, overflow_checks>>

ScrollToCenter(line) ==
    LET overflows == height_overflows(this)
        panics == overflows /\ overflow_checks
    IN  /\ ~panicked
        /\ last_op' = "scroll_to_center"
        /\ last_arg' = line
        /\ overflowed' = overflows
        /\ Stored(IF panics THEN this ELSE scroll_to_center(this, line))
        /\ result' = IF panics THEN Panic ELSE Unit
        /\ UNCHANGED <<terminal_height, overflow_checks>>

ScrollUp(amount) ==
    /\ ~panicked
    /\ last_op' = "scroll_up"
    /\ last_arg' = amount
    /\ Stored(scroll_up(this, amount))
    /\ overflowed' = FALSE
    /\ result' = Unit
    /\ UNCHANGED <<terminal_height, overflow_checks>>

ScrollDown(amount) ==
    LET overflows == scroll_down_overflows(this, amount)
        panics == overflows /\ overflow_checks
    IN  /\ ~panicked
        /\ last_op' = "scroll_down"
        /\ last_arg' = amount
        /\ overflowed' = overflows
        /\ Stored(IF panics THEN this ELSE scroll_down(this, amount))
        /\ result' = IF panics THEN Panic ELSE Unit
        /\ UNCHANGED <<terminal_height, overflow_checks>>

SetWrappedLineCount(count) ==
    /\ ~panicked
    /\ last_op' = "set_wrapped_line_count"
    /\ last_arg' = count
    /\ Stored(set_wrapped_line_count(this, count))
    /\ overflowed' = FALSE
    /\ result' = Unit
    /\ UNCHANGED <<terminal_height, overflow_checks>>

Height ==
    LET overflows == height_overflows(this)
        panics == overflows /\ overflow_checks
    IN  /\ ~panicked
        /\ last_op' = "height"
        /\ last_arg' = 0
        /\ overflowed' = overflows
        /\ result' = IF panics THEN Panic ELSE UsizeResult(height(this))
        /\ UNCHANGED <<line_offset, wrapped_line_count, terminal_height, overflow_checks>>

VisibleRange ==
    LET overflows == visible_range_overflows(this)
        panics == overflows /\ overflow_checks
    IN  /\ ~panicked
        /\ last_op' = "visible_range"
        /\ last_arg' = 0
        /\ overflowed' = overflows
        /\ result' = IF panics THEN Panic ELSE visible_range(this)
        /\ UNCHANGED <<line_offset, wrapped_line_count, terminal_height, overflow_checks>>

RelativePosition(line) ==
    LET overflows == relative_position_overflows(this, line)
        panics == overflows /\ overflow_checks
    IN  /\ ~panicked
        /\ last_op' = "relative_position"
        /\ last_arg' = line
        /\ overflowed' = overflows
        /\ result' = IF panics THEN Panic ELSE relative_position(this, line)
        /\ UNCHANGED <<line_offset, wrapped_line_count, terminal_height, overflow_checks>>

LineOffset ==
    /\ ~panicked
    /\ last_op' = "line_offset"
    /\ last_arg' = 0
    /\ overflowed' = FALSE
    /\ result' = UsizeResult(line_offset)
    /\ UNCHANGED <<line_offset, wrapped_line_count, terminal_height, overflow_checks>>

\* The terminal is resized: terminal.height() returns h from now on.
Resize(h) ==
    /\ ~panicked
    /\ h # terminal_height
    /\ terminal_height' = h
    /\ last_op' = "resize"
    /\ last_arg' = h
    /\ overflowed' = FALSE
    /\ result' = Unit
    /\ UNCHANGED <<line_offset, wrapped_line_count, overflow_checks>>

\* -------------------------------------------------------- specification
\* ScrollableRegion::new(terminal), over a terminal of any driven height
new ==
    /\ line_offset = 0
    /\ wrapped_line_count = 0
    /\ terminal_height \in Args
    /\ overflow_checks \in BOOLEAN
    /\ overflowed = FALSE
    /\ last_op = "new"
    /\ last_arg = 0
    /\ result = Unit

Init == new

Next ==
    \/ \E line \in Args : ScrollIntoView(line)
    \/ \E line \in Args : ScrollToCenter(line)
    \/ \E amount \in Args : ScrollUp(amount)
    \/ \E amount \in Args : ScrollDown(amount)
    \/ \E count \in Args : SetWrappedLineCount(count)
    \/ \E line \in Args : RelativePosition(line)
    \/ Height
    \/ VisibleRange
    \/ LineOffset
    \/ \E h \in Args : Resize(h)

Spec == Init /\ [][Next]_vars

TypeOK ==
    /\ line_offset \in Usize
    /\ wrapped_line_count \in Usize
    /\ terminal_height \in Usize
    /\ overflow_checks \in BOOLEAN
    /\ overflowed \in BOOLEAN
    /\ last_arg \in Usize

\* ---------------------------------------------------------------- claims
\* A claim about what a call does is read of the calls that return: a call
\* that panics returns nothing (that calls do not fail is claim C10).

\* x clamped at 0, over the integers
Max0(x) == IF x > 0 THEN x ELSE 0

\* the band [line_offset, line_offset + height()) lies within the word
BandFits(self) == ~visible_range_overflows(self)

C3_HeightIsClampedDifference ==
    (last_op = "height" /\ ~panicked)
        => /\ result = UsizeResult(Max0(terminal_height - wrapped_line_count - 1))
           /\ (wrapped_line_count + 1 >= terminal_height => result.val = 0)
           /\ (wrapped_line_count = 0 /\ terminal_height >= 1
                   => result.val = terminal_height - 1)

\* C3, where wrapped_line_count + 1 does not overflow: height() returns
\* max(0, H - W - 1).
C3_HoldsWithoutOverflow ==
    (last_op = "height" /\ ~overflowed)
        => result = UsizeResult(Max0(terminal_height - wrapped_line_count - 1))

\* C4: whenever visible_range() returns, its start() is line_offset() and
\* its end() is line_offset() + height(); a freshly created region over a
\* terminal of height H has the visible range [0, max(0, H - 1)).
C4_VisibleRangeIsBand ==
    /\ (last_op = "visible_range" /\ ~panicked)
           => /\ result.start = line_offset
              /\ result.end = line_offset + height(this)
    /\ last_op = "new"
           => visible_range(this) = LineRange(0, Max0(terminal_height - 1))

\* C4, where height() + line_offset does not overflow: visible_range() is
\* [line_offset, line_offset + height()).
C4_HoldsWithoutOverflow ==
    (last_op = "visible_range" /\ ~overflowed)
        => result = LineRange(line_offset, line_offset + height(this))

\* C5: in every state relative_position partitions the lines by the band:
\* AboveRegion for every line < line_offset(), Visible(k) for the line
\* line_offset() + k with 0 <= k < height(), BelowRegion for every line
\* >= line_offset() + height(); and that is what a call returns.
C5_RelativePositionPartitions ==
    \A line \in Usize :
        LET r == relative_position(this, line)
        IN  /\ line < line_offset => r = AboveRegion
            /\ (line >= line_offset /\ line - line_offset < height(this))
                   => r = Visible(line - line_offset)
            /\ line >= line_offset + height(this) => r = BelowRegion
            /\ (last_op = "relative_position" /\ ~panicked /\ last_arg = line)
                   => result = r

\* C5 witness: relative_position(line) has returned Visible(1) for the
\* second row of a band that has been scrolled.
C5_Witness ==
    /\ last_op = "relative_position"
    /\ ~overflowed
    /\ line_offset >= 1
    /\ height(this) >= 2
    /\ last_arg = line_offset + 1
    /\ result = Visible(1)

\* what C6 says scroll_into_view(line) leaves in line_offset, over the integers
C6_Offset(self, line) ==
    IF line < visible_range(self).start THEN line
    ELSE IF line >= visible_range(self).end THEN line - height(self) + 1
    ELSE self.line_offset

\* C6: a scroll_into_view(line) that returns leaves line_offset at: line,
\* if line < visible_range().start() before the call; line - height() + 1,
\* if line >= visible_range().end() before the call (and then the line is
\* the last row: line_offset + height() - 1 = line); the old line_offset
\* otherwise.
C6_ScrollIntoViewBranches ==
    [][(last_op' = "scroll_into_view" /\ ~panicked')
        => /\ line_offset' = C6_Offset(this, last_arg')
           /\ (/\ last_arg' >= visible_range(this).start
               /\ last_arg' >= visible_range(this).end)
                  => line_offset' + height(this') - 1 = last_arg']_vars

\* C6, where the call does not overflow: the three branches as C6 states them.
C6_HoldsWithoutOverflow ==
    [][(last_op' = "scroll_into_view" /\ ~overflowed')
        => /\ line_offset' = C6_Offset(this, last_arg')
           /\ (/\ last_arg' >= visible_range(this).start
               /\ last_arg' >= visible_range(this).end)
                  => line_offset' + height(this') - 1 = last_arg']_vars

\* C7: a scroll_to_center(line) that returns leaves line_offset at
\* max(0, line - floor(height() / 2)) whatever it was before, and at 0
\* when line is less than half of height().
C7_ScrollToCenterOffset ==
    [][(last_op' = "scroll_to_center" /\ ~panicked')
        => /\ line_offset' = Max0(last_arg' - (height(this) \div 2))
           /\ line_offset' >= 0
           /\ 2 * last_arg' < height(this) => line_offset' = 0]_vars

\* C7 witness: scroll_to_center(line) has put a line on the middle row of
\* a band of at least two rows, away from offset 0.
C7_Witness ==
    /\ last_op = "scroll_to_center"
    /\ ~overflowed
    /\ height(this) >= 2
    /\ line_offset >= 1
    /\ line_offset = last_arg - (height(this) \div 2)

\* C8: scroll_up(amount) leaves line_offset at max(0, line_offset - amount):
\* never negative, and at 0 when it was 0.
C8_ScrollUpSaturates ==
    [][last_op' = "scroll_up"
        => /\ ~panicked'
           /\ line_offset' = Max0(line_offset - last_arg')
           /\ line_offset' >= 0
           /\ line_offset = 0 => line_offset' = 0]_vars

\* C8 witness: scroll_up(amount) with amount >= 1 has left the region at
\* line_offset 0.
C8_Witness ==
    /\ last_op = "scroll_up"
    /\ last_arg >= 1
    /\ line_offset = 0
    /\ result = Unit

\* C9: a scroll_down(amount) that returns leaves line_offset at exactly
\* line_offset + amount, with no clamp, and visible_range() at
\* [o + amount, o + amount + height()) for the old offset o.
C9_ScrollDownAddsAmount ==
    [][(last_op' = "scroll_down" /\ ~panicked')
        => /\ line_offset' = line_offset + last_arg'
           /\ visible_range(this') =
                  LineRange(line_offset + last_arg',
                            line_offset + last_arg' + height(this))]_vars

\* C9, where neither line_offset + amount nor the new band overflows:
\* the offset and the band move by exactly amount.
C9_HoldsWithoutOverflow ==
    [][(last_op' = "scroll_down" /\ ~overflowed' /\ BandFits(this'))
        => /\ line_offset' = line_offset + last_arg'
           /\ visible_range(this') =
                  LineRange(line_offset + last_arg',
                            line_offset + last_arg' + height(this))]_vars

\* C10: no call fails: with the fields, the terminal height and the
\* arguments anywhere in 0 .. 2^w - 1, no call has an addition that exceeds
\* 2^w - 1 or a subtraction that goes below 0, and none panics.
C10_NoCallOverflows == ~overflowed /\ ~panicked

\* C11: line_offset is never negative, and the unchecked subtraction
\* line - height() of scroll_into_view's second branch is only evaluated
\* with line >= line_offset + height(), so never with line < height().
C11_SubtractionNeverUnderflows ==
    [][/\ line_offset' >= 0
       /\ (/\ last_op' = "scroll_into_view"
           /\ ~(overflow_checks /\ visible_range_overflows(this))
           /\ scroll_into_view_subtracts(this, last_arg'))
              => /\ last_arg' >= line_offset + height(this)
                 /\ ~sub_overflows(last_arg', height(this))]_vars

\* C11, where height() + line_offset does not overflow: the second branch
\* is entered only with line >= line_offset + height().
C11_HoldsWithoutOverflow ==
    [][(/\ last_op' = "scroll_into_view"
        /\ BandFits(this)
        /\ scroll_into_view_subtracts(this, last_arg'))
           => /\ last_arg' >= line_offset + height(this)
              /\ ~sub_overflows(last_arg', height(this))]_vars

\* C12: set_wrapped_line_count(count) replaces wrapped_line_count with
\* count and leaves line_offset unchanged; the next height() that returns
\* is max(0, H - count - 1), and visible_range() keeps its start.
C12_SetWrappedLineCountFrame ==
    [][last_op' = "set_wrapped_line_count"
        => /\ wrapped_line_count' = last_arg'
           /\ line_offset' = line_offset
           /\ ~(overflow_checks /\ height_overflows(this'))
                  => height(this') = Max0(terminal_height - last_arg' - 1)
           /\ visible_range(this').start = visible_range(this).start]_vars

\* C12, where count + 1 does not overflow: the same frame and the same
\* height().
C12_HoldsWithoutOverflow ==
    [][(last_op' = "set_wrapped_line_count" /\ ~height_overflows(this'))
        => /\ wrapped_line_count' = last_arg'
           /\ line_offset' = line_offset
           /\ height(this') = Max0(terminal_height - last_arg' - 1)
           /\ visible_range(this').start = visible_range(this).start]_vars

\* C12, the frame alone: the count is stored, line_offset and the start of
\* the visible range stay, for every count of the word.
C12_FrameHolds ==
    [][last_op' = "set_wrapped_line_count"
        => /\ wrapped_line_count' = last_arg'
           /\ line_offset' = line_offset
           /\ visible_range(this').start = visible_range(this).start]_vars

\* line lies in the band of height h that starts at offset o
InBand(o, h, line) == o <= line /\ line < o + h

\* the distance between two offsets
Distance(a, b) == IF a >= b THEN a - b ELSE b - a

\* C13: a scroll_into_view(line) that returns moves the band the minimum
\* distance: line_offset is unchanged when line is already in
\* visible_range(); otherwise no offset o with o <= line < o + height() is
\* nearer to the old line_offset than the new line_offset is.
C13_MinimalMovement ==
    [][(last_op' = "scroll_into_view" /\ ~panicked')
        => LET range == visible_range(this)
               visible == range.start <= last_arg' /\ last_arg' < range.end
           IN  /\ visible => line_offset' = line_offset
               /\ ~visible =>
                      \A o \in Usize :
                          InBand(o, height(this), last_arg')
                              => Distance(o, line_offset)
                                     >= Distance(line_offset', line_offset)]_vars

\* C13, where the call does not overflow: the band moves the minimum
\* distance.
C13_HoldsWithoutOverflow ==
    [][(last_op' = "scroll_into_view" /\ ~overflowed')
        => LET range == visible_range(this)
               visible == range.start <= last_arg' /\ last_arg' < range.end
           IN  /\ visible => line_offset' = line_offset
               /\ ~visible =>
                      \A o \in Usize :
                          InBand(o, height(this), last_arg')
                              => Distance(o, line_offset)
                                     >= Distance(line_offset', line_offset)]_vars

C15_AtMostOneFieldChanges ==
    [][/\ last_op' \in {"scroll_up", "scroll_down", "scroll_into_view",
                        "scroll_to_center"}
              => wrapped_line_count' = wrapped_line_count
       /\ last_op' = "set_wrapped_line_count" => line_offset' = line_offset
       /\ last_op' \in {"height", "visible_range", "relative_position",
                        "line_offset"}
              => /\ line_offset' = line_offset
                 /\ wrapped_line_count' = wrapped_line_count
       /\ last_op' # "resize" => terminal_height' = terminal_height
       /\ \/ line_offset' = line_offset
          \/ wrapped_line_count' = wrapped_line_count]_vars

\* C15 witness: set_wrapped_line_count(count) has been called on a region
\* that had been scrolled, and the region is still scrolled.
C15_Witness ==
    /\ last_op = "set_wrapped_line_count"
    /\ wrapped_line_count >= 1
    /\ wrapped_line_count = last_arg
    /\ line_offset >= 1

\* the classification of line against the band of height h at offset o
PositionInBand(o, h, line) ==
    IF line < o THEN AboveRegion
    ELSE IF line - o >= h THEN BelowRegion
    ELSE Visible(line - o)

\* what C16 says the query made right after a resize returns: the height
\* max(0, H - W - 1) for the new H, and the range and the position that
\* the code derives from that height
C16_AfterResize(outcome) ==
    LET h == Max0(terminal_height - wrapped_line_count - 1)
    IN  /\ last_op' = "height" => outcome = UsizeResult(h)
        /\ last_op' = "visible_range"
               => outcome = LineRange(line_offset, wrapping_add(h, line_offset))
        /\ last_op' = "relative_position"
               => outcome = PositionInBand(line_offset, h, last_arg')

\* C16: the region caches no height: a resize of the terminal leaves
\* line_offset and wrapped_line_count as they were, and the next height(),
\* visible_range() or relative_position() that returns is computed from
\* the new terminal height H, with height() == max(0, H - W - 1).
C16_NoCachedHeight ==
    [][/\ last_op' = "resize"
              => /\ line_offset' = line_offset
                 /\ wrapped_line_count' = wrapped_line_count
                 /\ terminal_height' = last_arg'
       /\ (last_op = "resize" /\ ~panicked') => C16_AfterResize(result')]_vars

\* C16, where wrapped_line_count + 1 does not overflow in the query after
\* the resize: it is computed from the new terminal height.
C16_HoldsWithoutOverflow ==
    [][/\ last_op' = "resize"
              => /\ line_offset' = line_offset
                 /\ wrapped_line_count' = wrapped_line_count
                 /\ terminal_height' = last_arg'
       /\ (last_op = "resize" /\ ~panicked' /\ ~height_overflows(this))
              => C16_AfterResize(result')]_vars

\* the smaller of two numbers
Min(a, b) == IF a <= b THEN a ELSE b

\* line is inside the range a visible_range() call returns
InRange(range, line) == range.start <= line /\ line < range.end

\* C17: whenever height() >= 1, after a scroll_to_center(line) that
\* returns, line is inside the visible_range() that is returned and
\* relative_position(line) == Visible(min(line, floor(height() / 2))).
C17_CenteredLineIsVisible ==
    [][(last_op' = "scroll_to_center" /\ ~panicked' /\ height(this) >= 1)
        => /\ relative_position(this', last_arg')
                  = Visible(Min(last_arg', height(this) \div 2))
           /\ ~(overflow_checks /\ visible_range_overflows(this'))
                  => InRange(visible_range(this'), last_arg')]_vars

\* C17, where the new band fits the word: the line is inside
\* visible_range() and on the row min(line, floor(height() / 2)).
C17_HoldsWithoutOverflow ==
    [][(/\ last_op' = "scroll_to_center"
        /\ ~panicked'
        /\ height(this) >= 1
        /\ BandFits(this'))
           => /\ relative_position(this', last_arg')
                     = Visible(Min(last_arg', height(this) \div 2))
              /\ InRange(visible_range(this'), last_arg')]_vars

\* C17, the position alone: relative_position(line) is
\* Visible(min(line, floor(height() / 2))) for every line of the word.
C17_PositionHolds ==
    [][(last_op' = "scroll_to_center" /\ ~panicked' /\ height(this) >= 1)
        => relative_position(this', last_arg')
               = Visible(Min(last_arg', height(this) \div 2))]_vars

\* C18: two successive scroll_into_view calls that return, on lines a
\* then b with |a - b| <= height() - 1, leave both a and b Visible
\* (height() >= 1).
C18_BothLinesStayVisible ==
    [][(/\ last_op = "scroll_into_view"
        /\ last_op' = "scroll_into_view"
        /\ ~panicked'
        /\ height(this) >= 1
        /\ Distance(last_arg, last_arg') <= height(this) - 1)
           => /\ relative_position(this', last_arg).kind = "Visible"
              /\ relative_position(this', last_arg').kind = "Visible"]_vars

\* C18, where neither call overflows and the bands fit the word: both
\* lines are Visible after the second call.
C18_HoldsWithoutOverflow ==
    [][(/\ last_op = "scroll_into_view"
        /\ last_op' = "scroll_into_view"
        /\ ~overflowed
        /\ ~overflowed'
        /\ BandFits(this)
        /\ BandFits(this')
        /\ height(this) >= 1
        /\ Distance(last_arg, last_arg') <= height(this) - 1)
           => /\ relative_position(this', last_arg).kind = "Visible"
              /\ relative_position(this', last_arg').kind = "Visible"]_vars

\* the larger of two numbers
Max(a, b) == IF a >= b THEN a ELSE b

\* C19: scroll_down(a) followed by scroll_up(b) with b <= a leaves
\* line_offset at the original value + a - b (the original value when
\* b = a), and scroll_up(a) followed by scroll_down(a) leaves
\* max(original, a), for every original value and every amount.
C19_ScrollRoundTrip ==
    [][/\ (last_op' = "scroll_down" /\ ~panicked')
              => \A b \in 0 .. last_arg' :
                     scroll_up(this', b).line_offset
                         = line_offset + last_arg' - b
       /\ (last_op' = "scroll_up" /\ ~panicked')
              => scroll_down(this', last_arg').line_offset
                     = Max(line_offset, last_arg')]_vars

\* C19, where line_offset + a fits the word: both compositions leave the
\* claimed line_offset.
C19_HoldsWithoutOverflow ==
    [][/\ (last_op' = "scroll_down" /\ ~overflowed')
              => \A b \in 0 .. last_arg' :
                     scroll_up(this', b).line_offset
                         = line_offset + last_arg' - b
       /\ (last_op' = "scroll_up" /\ ~panicked')
              => /\ ~scroll_down_overflows(this', last_arg')
                 /\ scroll_down(this', last_arg').line_offset
                        = Max(line_offset, last_arg')]_vars

====
